---------------------------- MODULE Spec2Model ----------------------------
(***************************************************************************)
(* Streaming Markdown-to-ANSI renderer (src/src/helpers/markdown-renderer.ts) *)
(*                                                                         *)
(* Text is modelled as a sequence of characters, a character being a       *)
(* one-character string: "a|b" is <<"a", "|", "b">>.  Characters that a    *)
(* TLA+ string cannot hold are written by name: ESC is U+001B, Backtick is *)
(* U+0060, the three glyphs of renderLine are HRuleGlyph, QuoteGlyph and   *)
(* BulletGlyph, and any other character beyond ASCII is the string of its  *)
(* code point, "U+00A0" being the no-break space.                          *)
(***************************************************************************)
EXTENDS Integers, Sequences, FiniteSets, TLC

(***************************************************************************)
(* Characters and the ansi table                                           *)
(***************************************************************************)
ESC == "ESC"
Backtick == "BACKTICK"
HRuleGlyph == "U+2500"
QuoteGlyph == "U+2502"
BulletGlyph == "U+2022"

ansi ==
  [ reset        |-> <<ESC, "[", "0", "m">>,
    boldOn       |-> <<ESC, "[", "1", "m">>,
    boldOff      |-> <<ESC, "[", "2", "2", "m">>,
    italicOn     |-> <<ESC, "[", "3", "m">>,
    italicOff    |-> <<ESC, "[", "2", "3", "m">>,
    strikeOn     |-> <<ESC, "[", "9", "m">>,
    strikeOff    |-> <<ESC, "[", "2", "9", "m">>,
    underlineOn  |-> <<ESC, "[", "4", "m">>,
    underlineOff |-> <<ESC, "[", "2", "4", "m">>,
    dimOn        |-> <<ESC, "[", "2", "m">>,
    dimOff       |-> <<ESC, "[", "2", "2", "m">>,
    cyanOn       |-> <<ESC, "[", "3", "6", "m">>,
    cyanOff      |-> <<ESC, "[", "3", "9", "m">>,
    codeOn       |-> <<ESC, "[", "3", "6", "m">>,
    codeOff      |-> <<ESC, "[", "3", "9", "m">>,
    headingOn    |-> <<ESC, "[", "1", "m", ESC, "[", "3", "6", "m">>,
    headingOff   |-> <<ESC, "[", "2", "2", "m", ESC, "[", "3", "9", "m">> ]

NL == "\n"

\* The 25 code units of JavaScript's \s and of String.prototype.trim: the
\* white space and the line terminators of ECMAScript.  Those a TLA+ string
\* cannot hold are written by the name of their code point.
WhiteSpace ==
  { " ", "\t", "\n", "\r", "\f", "U+000B", "U+00A0", "U+1680",
    "U+2000", "U+2001", "U+2002", "U+2003", "U+2004", "U+2005", "U+2006",
    "U+2007", "U+2008", "U+2009", "U+200A",
    "U+2028", "U+2029", "U+202F", "U+205F", "U+3000", "U+FEFF" }

\* The characters the regular-expression dot does not match: the four line
\* terminators of ECMAScript.
LineTerminators == {"\n", "\r", "U+2028", "U+2029"}

Digits == {"0", "1", "2", "3", "4", "5", "6", "7", "8", "9"}

(***************************************************************************)
(* String primitives of the JavaScript runtime                             *)
(***************************************************************************)
MinOf(S) == CHOOSE x \in S : \A y \in S : x <= y

MaxOf(S) == CHOOSE x \in S : \A y \in S : x >= y

Max2(a, b) == IF a >= b THEN a ELSE b

\* s.slice(i - 1): the characters of s from position i (1-based) on.
From(s, i) == SubSeq(s, i, Len(s))

\* String.prototype.trim
Trim(s) ==
  LET I == {i \in 1..Len(s) : s[i] \notin WhiteSpace}
  IN  IF I = {} THEN <<>> ELSE SubSeq(s, MinOf(I), MaxOf(I))

\* String.prototype.startsWith
StartsWith(s, p) == Len(s) >= Len(p) /\ SubSeq(s, 1, Len(p)) = p

\* String.prototype.includes, for a one-character needle
Includes(s, c) == \E i \in 1..Len(s) : s[i] = c

\* The first position >= from at which s holds c, or 0 when there is none.
IndexOf(s, c, from) ==
  LET I == {i \in from..Len(s) : s[i] = c}
  IN  IF I = {} THEN 0 ELSE MinOf(I)

\* The length of the longest run of characters of set C that starts at
\* position from (what a greedy C* consumes there).
RunLen(s, C, from) ==
  LET I == {i \in from..Len(s) : s[i] \notin C}
  IN  IF I = {} THEN Len(s) - from + 1 ELSE MinOf(I) - from

\* String.prototype.split, for a one-character separator: always at least
\* one piece, "".split(c) being [""].
RECURSIVE Split(_, _)
Split(s, c) ==
  LET i == IndexOf(s, c, 1)
  IN  IF i = 0 THEN <<s>>
      ELSE <<SubSeq(s, 1, i - 1)>> \o Split(From(s, i + 1), c)

\* Array.prototype.join
RECURSIVE Join(_, _)
Join(parts, sep) ==
  IF parts = <<>> THEN <<>>
  ELSE IF Len(parts) = 1 THEN parts[1]
  ELSE parts[1] \o sep \o Join(Tail(parts), sep)

\* String.prototype.repeat, for a one-character string
Repeat(c, n) == [i \in 1..n |-> c]

(***************************************************************************)
(* Line predicates and the table row parser                                *)
(***************************************************************************)
\* line.trim().startsWith of three backticks
isFence(line) == StartsWith(Trim(line), <<Backtick, Backtick, Backtick>>)

\* One cell of a separator line: \s*:?-+:?\s* over the whole of cell.
SeparatorCell(cell) ==
  LET t == Trim(cell)
      a == IF t # <<>> /\ Head(t) = ":" THEN Tail(t) ELSE t
      b == IF a # <<>> /\ a[Len(a)] = ":" THEN SubSeq(a, 1, Len(a) - 1) ELSE a
  IN  b # <<>> /\ \A i \in 1..Len(b) : b[i] = "-"

\* /^\s*\|?(\s*:?-+:?\s*\|)+\s*:?-+:?\s*\|?\s*$/
\* A cell is never empty and never holds a pipe, so a leading or trailing
\* pipe can only be matched by the optional \|?, and what lies between them
\* is two or more pipe-separated cells.
isTableSeparator(line) ==
  LET t == Trim(line)
      a == IF t # <<>> /\ Head(t) = "|" THEN Tail(t) ELSE t
      b == IF a # <<>> /\ a[Len(a)] = "|" THEN SubSeq(a, 1, Len(a) - 1) ELSE a
      cells == Split(b, "|")
  IN  Len(cells) >= 2 /\ \A i \in 1..Len(cells) : SeparatorCell(cells[i])

isTableRow(line) == Includes(line, "|")

parseTableRow(line) ==
  LET t == Trim(line)
      a == IF t # <<>> /\ Head(t) = "|" THEN Tail(t) ELSE t
      trimmed == IF a # <<>> /\ a[Len(a)] = "|"
                 THEN SubSeq(a, 1, Len(a) - 1) ELSE a
      cells == Split(trimmed, "|")
  IN  [i \in 1..Len(cells) |-> Trim(cells[i])]

(***************************************************************************)
(* The inline styler: six global regular-expression replacements           *)
(***************************************************************************)
NoMatch == [end |-> 0, text |-> <<>>]

\* /B([^B]+)B/ at position i, B standing for the backtick
MatchCode(s, i) ==
  IF s[i] # Backtick THEN NoMatch
  ELSE LET j == IndexOf(s, Backtick, i + 1)
       IN  IF j >= i + 2
           THEN [end |-> j,
                 text |-> ansi.codeOn \o SubSeq(s, i + 1, j - 1) \o ansi.codeOff]
           ELSE NoMatch

\* /~~([^~]+)~~/ at position i
MatchStrike(s, i) ==
  IF ~(i + 1 <= Len(s) /\ s[i] = "~" /\ s[i + 1] = "~") THEN NoMatch
  ELSE LET j == IndexOf(s, "~", i + 2)
       IN  IF j >= i + 3 /\ j + 1 <= Len(s) /\ s[j + 1] = "~"
           THEN [end |-> j + 1,
                 text |-> ansi.strikeOn \o SubSeq(s, i + 2, j - 1)
                            \o ansi.strikeOff]
           ELSE NoMatch

\* /(\*\*|__)(.+?)\1/ at position i: the lazy .+? ends at the first later
\* occurrence of the same two-character marker.
MatchBold(s, i) ==
  IF ~(i + 1 <= Len(s) /\ s[i] \in {"*", "_"} /\ s[i + 1] = s[i]) THEN NoMatch
  ELSE LET K == {k \in (i + 3)..(Len(s) - 1) :
                   /\ s[k] = s[i]
                   /\ s[k + 1] = s[i]
                   /\ \A m \in (i + 2)..(k - 1) : s[m] \notin LineTerminators}
       IN  IF K = {} THEN NoMatch
           ELSE [end |-> MinOf(K) + 1,
                 text |-> ansi.boldOn \o SubSeq(s, i + 2, MinOf(K) - 1)
                            \o ansi.boldOff]

\* /(^|[^*])\*([^*]+)\*(?!\*)/ and /(^|[^_])_([^_]+)_(?!_)/ at position i,
\* mark being "*" or "_".  p is the position of the opening mark: i itself at
\* the start of the string, i + 1 after a character that is not the mark.
MatchItalic(mark, s, i) ==
  LET p == IF s[i] = mark THEN (IF i = 1 THEN 1 ELSE 0)
           ELSE (IF i + 1 <= Len(s) /\ s[i + 1] = mark THEN i + 1 ELSE 0)
  IN  IF p = 0 THEN NoMatch
      ELSE LET j == IndexOf(s, mark, p + 1)
           IN  IF j >= p + 2 /\ (j = Len(s) \/ s[j + 1] # mark)
               THEN [end |-> j,
                     text |-> SubSeq(s, i, p - 1) \o ansi.italicOn
                                \o SubSeq(s, p + 1, j - 1) \o ansi.italicOff]
               ELSE NoMatch

\* /\[([^\]]+)\]\(([^)]+)\)/ at position i
MatchLink(s, i) ==
  IF s[i] # "[" THEN NoMatch
  ELSE LET j == IndexOf(s, "]", i + 1)
       IN  IF ~(j >= i + 2 /\ j + 1 <= Len(s) /\ s[j + 1] = "(") THEN NoMatch
           ELSE LET k == IndexOf(s, ")", j + 2)
                IN  IF k >= j + 3
                    THEN [end |-> k,
                          text |-> ansi.underlineOn \o ansi.cyanOn
                                     \o SubSeq(s, i + 1, j - 1)
                                     \o ansi.underlineOff \o ansi.cyanOff
                                     \o <<" ", "(">> \o SubSeq(s, j + 2, k - 1)
                                     \o <<")">>]
                    ELSE NoMatch

\* /\x1b\[[0-9;]*m/ at position i, replaced by the empty string
MatchAnsi(s, i) ==
  IF ~(i + 1 <= Len(s) /\ s[i] = ESC /\ s[i + 1] = "[") THEN NoMatch
  ELSE LET j == i + 2 + RunLen(s, Digits \cup {";"}, i + 2)
       IN  IF j <= Len(s) /\ s[j] = "m"
           THEN [end |-> j, text |-> <<>>]
           ELSE NoMatch

MatchAt(kind, s, i) ==
  CASE kind = "code"       -> MatchCode(s, i)
    [] kind = "strike"     -> MatchStrike(s, i)
    [] kind = "bold"       -> MatchBold(s, i)
    [] kind = "italicStar" -> MatchItalic("*", s, i)
    [] kind = "italicUnd"  -> MatchItalic("_", s, i)
    [] kind = "link"       -> MatchLink(s, i)
    [] kind = "ansi"       -> MatchAnsi(s, i)

\* String.prototype.replace with a global regular expression: the leftmost
\* match from position i is replaced and the scan resumes after its end.
RECURSIVE ReplaceFrom(_, _, _)
\* m is what the expression finds at position i.
ReplaceMatch(kind, s, i, m) ==
  IF m.end > 0 THEN m.text \o ReplaceFrom(kind, s, m.end + 1)
  ELSE <<s[i]>> \o ReplaceFrom(kind, s, i + 1)

ReplaceFrom(kind, s, i) ==
  IF i > Len(s) THEN <<>> ELSE ReplaceMatch(kind, s, i, MatchAt(kind, s, i))

ReplaceAll(kind, s) == ReplaceFrom(kind, s, 1)

stripAnsi(value) == ReplaceAll("ansi", value)

renderInline(text) ==
  LET o1 == ReplaceAll("code", text)
      o2 == ReplaceAll("strike", o1)
      o3 == ReplaceAll("bold", o2)
      o4 == ReplaceAll("italicStar", o3)
      o5 == ReplaceAll("italicUnd", o4)
  IN  ReplaceAll("link", o5)

(***************************************************************************)
(* The table renderer                                                      *)
(***************************************************************************)
\* stripAnsi(renderInline(cell)).length
visualLength(cell) == Len(stripAnsi(renderInline(cell)))

\* The widths array the two forEach loops build: one entry per cell index
\* that any row of allRows has, each the largest visual length of the cells
\* at that index, and at least 3.
tableWidths(table) ==
  LET allRows == <<table.header>> \o table.rows
      n == MaxOf({Len(allRows[r]) : r \in 1..Len(allRows)})
  IN  [index \in 1..n |->
         MaxOf({3} \cup {visualLength(allRows[r][index]) :
                           r \in {q \in 1..Len(allRows) :
                                    index <= Len(allRows[q])}})]

\* Mutant of padCell: the cell is not padded to the width of its column.
padCell_NoPad(styled, padding, isHeader) ==
  IF ~isHeader THEN styled
  ELSE ansi.boldOn \o ansi.cyanOn \o styled \o ansi.boldOff \o ansi.cyanOff

\* One cell of renderRow: the callback of widths.map.
\* styled is renderInline(value), padding is width less its visual length.
padCell(styled, padding, isHeader) ==
  LET padded == styled \o Repeat(" ", Max2(0, padding))
  IN  IF ~isHeader THEN padded
      ELSE ansi.boldOn \o ansi.cyanOn \o padded \o ansi.boldOff \o ansi.cyanOff

styleCell(width, styled, isHeader) ==
  padCell(styled, width - Len(stripAnsi(styled)), isHeader)

renderCell(width, value, isHeader) ==
  styleCell(width, renderInline(value), isHeader)

renderRow(widths, row, isHeader) ==
  LET cells == [index \in 1..Len(widths) |->
                  renderCell(widths[index],
                             IF index <= Len(row) THEN row[index] ELSE <<>>,
                             isHeader)]
  IN  <<"|", " ">> \o Join(cells, <<" ", "|", " ">>) \o <<" ", "|">>

tableLines(table) ==
  LET widths == tableWidths(table)
      separator == <<"|", " ">>
                     \o Join([i \in 1..Len(widths) |-> Repeat("-", widths[i])],
                             <<" ", "|", " ">>)
                     \o <<" ", "|">>
  IN  <<renderRow(widths, table.header, TRUE), separator>>
        \o [r \in 1..Len(table.rows) |-> renderRow(widths, table.rows[r], FALSE)]

\* Mutant of renderTable: every line of the table is ended by a line break,
\* the last one too.
renderTable_TrailingBreak(table) == Join(tableLines(table), <<NL>>) \o <<NL>>

renderTable(table) == Join(tableLines(table), <<NL>>)

(***************************************************************************)
(* The generic line renderer                                               *)
(***************************************************************************)
\* (.*)$ matches the rest of the line only if it holds no line terminator.
DotStar(rest) == \A i \in 1..Len(rest) : rest[i] \notin LineTerminators

\* /^\s*(#{1,6})\s+(.*)$/ : the captured text, in a one-element sequence,
\* or <<>> when the line is no heading.
headingMatch(line) ==
  LET w == RunLen(line, WhiteSpace, 1)
      h == RunLen(line, {"#"}, w + 1)
      g == RunLen(line, WhiteSpace, w + h + 1)
      rest == From(line, w + h + g + 1)
  IN  IF h >= 1 /\ h <= 6 /\ g >= 1 /\ DotStar(rest) THEN <<rest>> ELSE <<>>

\* /^\s*(-{3,}|\*{3,}|_{3,})\s*$/
hrMatch(line) ==
  LET t == Trim(line)
  IN  /\ Len(t) >= 3
      /\ t[1] \in {"-", "*", "_"}
      /\ \A i \in 1..Len(t) : t[i] = t[1]

\* /^(\s*)>\s?(.*)$/ : <<indent, content>>, or <<>>
blockquoteMatch(line) ==
  LET w == RunLen(line, WhiteSpace, 1)
      g == IF w + 2 <= Len(line) /\ line[w + 2] \in WhiteSpace THEN 1 ELSE 0
      rest == From(line, w + g + 2)
  IN  IF w + 1 <= Len(line) /\ line[w + 1] = ">" /\ DotStar(rest)
      THEN <<SubSeq(line, 1, w), rest>> ELSE <<>>

\* /^(\s*)(\d+)\.\s+(.*)$/ : <<indent, marker, content>>, or <<>>
orderedMatch(line) ==
  LET w == RunLen(line, WhiteSpace, 1)
      d == RunLen(line, Digits, w + 1)
      g == RunLen(line, WhiteSpace, w + d + 2)
      rest == From(line, w + d + g + 2)
  IN  IF /\ d >= 1
         /\ w + d + 1 <= Len(line)
         /\ line[w + d + 1] = "."
         /\ g >= 1
         /\ DotStar(rest)
      THEN <<SubSeq(line, 1, w), SubSeq(line, w + 1, w + d), rest>> ELSE <<>>

\* /^(\s*)[-*+]\s+(.*)$/ : <<indent, content>>, or <<>>
unorderedMatch(line) ==
  LET w == RunLen(line, WhiteSpace, 1)
      g == RunLen(line, WhiteSpace, w + 2)
      rest == From(line, w + g + 2)
  IN  IF /\ w + 1 <= Len(line)
         /\ line[w + 1] \in {"-", "*", "+"}
         /\ g >= 1
         /\ DotStar(rest)
      THEN <<SubSeq(line, 1, w), rest>> ELSE <<>>

\* The width of the horizontal rule renderLine draws.
HRuleWidth == 40

renderLine(line) ==
  IF Trim(line) = <<>> THEN <<>>
  ELSE IF headingMatch(line) # <<>>
  THEN ansi.headingOn \o renderInline(Trim(headingMatch(line)[1]))
         \o ansi.headingOff
  ELSE IF hrMatch(line)
  THEN ansi.dimOn \o Repeat(HRuleGlyph, HRuleWidth) \o ansi.dimOff
  ELSE IF blockquoteMatch(line) # <<>>
  THEN blockquoteMatch(line)[1] \o ansi.dimOn \o <<QuoteGlyph>> \o ansi.dimOff
         \o <<" ">> \o renderInline(Trim(blockquoteMatch(line)[2]))
  ELSE IF orderedMatch(line) # <<>>
  THEN orderedMatch(line)[1] \o orderedMatch(line)[2] \o <<".", " ">>
         \o renderInline(orderedMatch(line)[3])
  ELSE IF unorderedMatch(line) # <<>>
  THEN unorderedMatch(line)[1] \o <<BulletGlyph, " ">>
         \o renderInline(unorderedMatch(line)[2])
  ELSE renderInline(line)

(***************************************************************************)
(* RendererState and the block router, as functions of a state record      *)
(***************************************************************************)
\* tableState is <<>> for null and <<t>> for the TableState t.
NoTable == <<>>

createInitialState ==
  [ buffer       |-> <<>>,
    pendingLines |-> <<>>,
    inCodeBlock  |-> FALSE,
    tableState   |-> NoTable ]

\* What one iteration of the drain loop yields: the state after it, the
\* strings it handed to the writer, the branch it took, and whether it left
\* the loop by break.
Step(st, emit, branch, brk) ==
  [st |-> st, emit |-> emit, branch |-> branch, brk |-> brk]

\* Mutant of tableModeStep: the line that ends the table is removed from the
\* queue along with the table.
tableModeStep_ConsumeEnd(st) ==
  LET nextLine == st.pendingLines[1]
      table == st.tableState[1]
  IN  IF isTableRow(nextLine) /\ ~isTableSeparator(nextLine)
      THEN Step([st EXCEPT
                   !.tableState =
                      <<[table EXCEPT
                           !.rows = Append(@, parseTableRow(nextLine))]>>,
                   !.pendingLines = Tail(@)],
                <<>>, "row", FALSE)
      ELSE Step([st EXCEPT !.tableState = NoTable, !.pendingLines = Tail(@)],
                <<renderTable(table) \o <<NL>>>>, "tableEnd", FALSE)

\* Mutant of tableModeStep: the table is rendered at its end but stays open.
tableModeStep_KeepTable(st) ==
  LET nextLine == st.pendingLines[1]
      table == st.tableState[1]
  IN  IF isTableRow(nextLine) /\ ~isTableSeparator(nextLine)
      THEN Step([st EXCEPT
                   !.tableState =
                      <<[table EXCEPT
                           !.rows = Append(@, parseTableRow(nextLine))]>>,
                   !.pendingLines = Tail(@)],
                <<>>, "row", FALSE)
      ELSE Step(st, <<renderTable(table) \o <<NL>>>>, "tableEnd", FALSE)

\* Mutant of tableModeStep: a row line is removed from the queue but not
\* added to the table.
tableModeStep_DropRow(st) ==
  LET nextLine == st.pendingLines[1]
      table == st.tableState[1]
  IN  IF isTableRow(nextLine) /\ ~isTableSeparator(nextLine)
      THEN Step([st EXCEPT !.pendingLines = Tail(@)], <<>>, "row", FALSE)
      ELSE Step([st EXCEPT !.tableState = NoTable],
                <<renderTable(table) \o <<NL>>>>, "tableEnd", FALSE)

\* The iteration when state.tableState is set.
tableModeStep(st) ==
  LET nextLine == st.pendingLines[1]
      table == st.tableState[1]
  IN  IF isTableRow(nextLine) /\ ~isTableSeparator(nextLine)
      THEN Step([st EXCEPT
                   !.tableState =
                      <<[table EXCEPT
                           !.rows = Append(@, parseTableRow(nextLine))]>>,
                   !.pendingLines = Tail(@)],
                <<>>, "row", FALSE)
      ELSE Step([st EXCEPT !.tableState = NoTable],
                <<renderTable(table) \o <<NL>>>>, "tableEnd", FALSE)

\* Mutant of codeModeStep: a line of a code block goes through renderLine.
codeModeStep_Styled(st) ==
  LET line == st.pendingLines[1]
  IN  IF isFence(line)
      THEN Step([st EXCEPT !.pendingLines = Tail(@), !.inCodeBlock = FALSE],
                <<ansi.codeOff \o <<NL>>>>, "codeClose", FALSE)
      ELSE Step([st EXCEPT !.pendingLines = Tail(@)],
                <<renderLine(line) \o <<NL>>>>, "code", FALSE)

\* Mutant of codeModeStep: only a line that is three backticks and nothing
\* else closes the block; a fence with more text is a line of the block.
codeModeStep_BareFence(st) ==
  LET line == st.pendingLines[1]
  IN  IF Trim(line) = <<Backtick, Backtick, Backtick>>
      THEN Step([st EXCEPT !.pendingLines = Tail(@), !.inCodeBlock = FALSE],
                <<ansi.codeOff \o <<NL>>>>, "codeClose", FALSE)
      ELSE Step([st EXCEPT !.pendingLines = Tail(@)],
                <<line \o <<NL>>>>, "code", FALSE)

\* The iteration when state.inCodeBlock is set.
codeModeStep(st) ==
  LET line == st.pendingLines[1]
  IN  IF isFence(line)
      THEN Step([st EXCEPT !.pendingLines = Tail(@), !.inCodeBlock = FALSE],
                <<ansi.codeOff \o <<NL>>>>, "codeClose", FALSE)
      ELSE Step([st EXCEPT !.pendingLines = Tail(@)],
                <<line \o <<NL>>>>, "code", FALSE)

\* Mutant of mustDefer: a table candidate is never held back for the line
\* after it.
mustDefer_Never(st, final) == FALSE

\* Mutant of mustDefer: the loop stops at a lone candidate in final mode too.
mustDefer_IgnoreFinal(st, final) == Len(st.pendingLines) < 2

\* Mutant of mustDefer: the loop stops at a candidate with one line after it.
mustDefer_Two(st, final) == Len(st.pendingLines) < 3 /\ ~final

\* state.pendingLines.length < 2 && !final
mustDefer(st, final) == Len(st.pendingLines) < 2 /\ ~final

\* Mutant of startsTable: any pipe line after the candidate starts a table.
startsTable_AnyPipe(st) ==
  /\ Len(st.pendingLines) >= 2
  /\ isTableRow(st.pendingLines[2])

\* separator && isTableSeparator(separator), separator being pendingLines[1]
\* of the source (undefined when the queue holds one line).
startsTable(st) ==
  /\ Len(st.pendingLines) >= 2
  /\ st.pendingLines[2] # <<>>
  /\ isTableSeparator(st.pendingLines[2])

\* Mutant of deferStep: the candidate is removed from the queue before the
\* loop stops.
deferStep_Drop(st) ==
  Step([st EXCEPT !.pendingLines = Tail(@)], <<>>, "defer", TRUE)

\* The break of the loop: the table candidate stays at the head of the queue.
deferStep(st) == Step(st, <<>>, "defer", TRUE)

\* Mutant of normalModeStep: the pipe is looked for before the fence, so a
\* fence line that holds a pipe is taken for a table candidate.
normalModeStep_TableFirst(st, final) ==
  LET line == st.pendingLines[1]
  IN  IF isTableRow(line) /\ mustDefer(st, final)
      THEN deferStep(st)
      ELSE IF isTableRow(line) /\ startsTable(st)
      THEN Step([st EXCEPT
                   !.tableState = <<[header |-> parseTableRow(line),
                                     rows |-> <<>>]>>,
                   !.pendingLines = Tail(Tail(@))],
                <<>>, "tableStart", FALSE)
      ELSE IF isFence(line)
      THEN Step([st EXCEPT !.inCodeBlock = TRUE, !.pendingLines = Tail(@)],
                <<ansi.codeOn \o <<NL>>>>, "codeOpen", FALSE)
      ELSE Step([st EXCEPT !.pendingLines = Tail(@)],
                <<renderLine(line) \o <<NL>>>>, "line", FALSE)

\* The iteration when neither a table nor a code block is open.
normalModeStep(st, final) ==
  LET line == st.pendingLines[1]
  IN  IF isFence(line)
      THEN Step([st EXCEPT !.inCodeBlock = TRUE, !.pendingLines = Tail(@)],
                <<ansi.codeOn \o <<NL>>>>, "codeOpen", FALSE)
      ELSE IF isTableRow(line) /\ mustDefer(st, final)
      THEN deferStep(st)
      ELSE IF isTableRow(line) /\ startsTable(st)
      THEN Step([st EXCEPT
                   !.tableState = <<[header |-> parseTableRow(line),
                                     rows |-> <<>>]>>,
                   !.pendingLines = Tail(Tail(@))],
                <<>>, "tableStart", FALSE)
      ELSE Step([st EXCEPT !.pendingLines = Tail(@)],
                <<renderLine(line) \o <<NL>>>>, "line", FALSE)

\* Mutant of Iteration: a fence is handled before the open table is looked
\* at, so a fence line opens a code block while the table stays open.
Iteration_FenceFirst(st, final) ==
  IF st.tableState # NoTable /\ ~isFence(st.pendingLines[1])
  THEN tableModeStep(st)
  ELSE IF st.inCodeBlock THEN codeModeStep(st)
  ELSE normalModeStep(st, final)

\* One iteration of the while loop of processPending (its body, entered with
\* a non-empty queue).
Iteration(st, final) ==
  IF st.tableState # NoTable THEN tableModeStep(st)
  ELSE IF st.inCodeBlock THEN codeModeStep(st)
  ELSE normalModeStep(st, final)

\* processPending(final) as a whole: the state it leaves and the strings it
\* hands to the writer, in order.
RECURSIVE processPending(_, _)
\* r is what the iteration just made yields, q what the rest of the loop does.
afterIteration(r, q) == [st |-> q.st, emit |-> r.emit \o q.emit]

continueLoop(r, final) ==
  IF r.brk THEN [st |-> r.st, emit |-> r.emit]
  ELSE afterIteration(r, processPending(r.st, final))

processPending(st, final) ==
  IF st.pendingLines = <<>> THEN [st |-> st, emit |-> <<>>]
  ELSE continueLoop(Iteration(st, final), final)

\* Mutant of writeSplit: the new lines are put at the head of the queue.
writeSplit_Unshift(st, chunk) ==
  LET lines == Split(st.buffer \o chunk, NL)
  IN  [st EXCEPT !.buffer = lines[Len(lines)],
                 !.pendingLines = SubSeq(lines, 1, Len(lines) - 1) \o @]

\* Mutant of writeSplit: the buffer keeps the whole text, not its last piece.
writeSplit_KeepBuffer(st, chunk) ==
  LET lines == Split(st.buffer \o chunk, NL)
  IN  [st EXCEPT !.buffer = st.buffer \o chunk,
                 !.pendingLines = @ \o SubSeq(lines, 1, Len(lines) - 1)]

\* write, up to the call of processPending: buffer += chunk; split; pop; push.
writeSplit(st, chunk) ==
  LET lines == Split(st.buffer \o chunk, NL)
  IN  [st EXCEPT !.buffer = lines[Len(lines)],
                 !.pendingLines = @ \o SubSeq(lines, 1, Len(lines) - 1)]

\* flush, up to the call of processPending.
flushPush(st) ==
  IF st.buffer # <<>>
  THEN [st EXCEPT !.pendingLines = Append(@, st.buffer), !.buffer = <<>>]
  ELSE st

\* Mutant of flushClose: the style reset is written but inCodeBlock stays set.
flushClose_KeepCode(st) ==
  LET t == IF st.tableState # NoTable
           THEN <<renderTable(st.tableState[1]) \o <<NL>>>> ELSE <<>>
      c == IF st.inCodeBlock THEN <<ansi.codeOff \o <<NL>>>> ELSE <<>>
  IN  [st |-> [st EXCEPT !.tableState = NoTable], emit |-> t \o c]

\* Mutant of flushClose: the open table is dropped without being rendered.
flushClose_DropTable(st) ==
  LET c == IF st.inCodeBlock THEN <<ansi.codeOff \o <<NL>>>> ELSE <<>>
  IN  [st |-> [st EXCEPT !.tableState = NoTable, !.inCodeBlock = FALSE],
       emit |-> c]

\* Mutant of flushClose: the style reset is written whether or not a code
\* block is open.
flushClose_AlwaysReset(st) ==
  LET t == IF st.tableState # NoTable
           THEN <<renderTable(st.tableState[1]) \o <<NL>>>> ELSE <<>>
  IN  [st |-> [st EXCEPT !.tableState = NoTable, !.inCodeBlock = FALSE],
       emit |-> t \o <<ansi.codeOff \o <<NL>>>>]

\* flush, after processPending(true) has returned: the open table, then the
\* open code block.
flushClose(st) ==
  LET t == IF st.tableState # NoTable
           THEN <<renderTable(st.tableState[1]) \o <<NL>>>> ELSE <<>>
      c == IF st.inCodeBlock THEN <<ansi.codeOff \o <<NL>>>> ELSE <<>>
  IN  [st |-> [st EXCEPT !.tableState = NoTable, !.inCodeBlock = FALSE],
       emit |-> t \o c]

\* renderer.write(chunk) as a whole
write(st, chunk) == processPending(writeSplit(st, chunk), FALSE)

\* renderer.flush() as a whole
flush(st) ==
  afterIteration(processPending(flushPush(st), TRUE),
                 flushClose(processPending(flushPush(st), TRUE).st))

(***************************************************************************)
(* The streams the caller feeds                                            *)
(***************************************************************************)
\* The most lines a stream holds, and the most characters of one chunk.
MaxLines == 3
MaxChunk == 3

\* The lines a stream is made of: a blank line, a heading, a pipe line with
\* inline markup, a two-cell pipe line, a separator line, a fence, and a
\* fence that holds a pipe.
Vocabulary ==
  { <<>>,
    <<"#", " ", "a">>,
    <<"*", "a", "*", "|">>,
    <<"a", "|", "b">>,
    <<"-", "|", "-">>,
    <<Backtick, Backtick, Backtick>>,
    <<Backtick, Backtick, Backtick, "|">> }

Alphabet == {NL} \cup UNION {{l[i] : i \in 1..Len(l)} : l \in Vocabulary}

IsPrefix(p, s) == Len(p) <= Len(s) /\ SubSeq(s, 1, Len(p)) = p

\* text is the beginning of a stream of at most MaxLines lines of Vocabulary,
\* the last of which may lack its line break.
InLanguage(text) ==
  LET parts == Split(text, NL)
      n == Len(parts) - 1
      tail == parts[Len(parts)]
  IN  /\ n <= MaxLines
      /\ \A i \in 1..n : parts[i] \in Vocabulary
      /\ \E l \in Vocabulary : IsPrefix(tail, l)
      /\ (n = MaxLines => tail = <<>>)

\* The chunks of at most n characters that may follow text.
RECURSIVE ChunksAfter(_, _)
ChunksAfter(text, n) ==
  {<<>>} \cup
  IF n = 0 THEN {}
  ELSE UNION { { <<c>> \o rest : rest \in ChunksAfter(text \o <<c>>, n - 1) } :
               c \in {d \in Alphabet : InLanguage(text \o <<d>>)} }

(***************************************************************************)
(* The renderer as a state machine                                         *)
(***************************************************************************)
VARIABLES
  buffer,        \* state.buffer
  pendingLines,  \* state.pendingLines
  inCodeBlock,   \* state.inCodeBlock
  tableState,    \* state.tableState
  out,           \* the strings handed to the writer, in order
  pc,            \* where the caller is: "idle" between calls, "write" or
                 \* "flush" in the drain loop of that call, "flushClose"
                 \* after the loop of flush
  fed,           \* the text written so far
  flushed,       \* flush has returned and nothing was written since
  consumed,      \* how many lines were removed from pendingLines
  outSrc,        \* for each string of out, its kind and the lines it renders
  atFlush        \* the state and the length of out when flush was called

vars == <<buffer, pendingLines, inCodeBlock, tableState, out, pc, fed,
          flushed, consumed, outSrc, atFlush>>

\* out, fed, consumed, outSrc and atFlush are the history of the current
\* stream: the one that began at construction, or at the first write after a
\* flush.
NotFlushed == [st |-> createInitialState, outLen |-> 0]

state ==
  [ buffer       |-> buffer,
    pendingLines |-> pendingLines,
    inCodeBlock  |-> inCodeBlock,
    tableState   |-> tableState ]

SetState(st) ==
  /\ buffer' = st.buffer
  /\ pendingLines' = st.pendingLines
  /\ inCodeBlock' = st.inCodeBlock
  /\ tableState' = st.tableState

\* The renderer state is st.
SetStateNow(st) ==
  /\ buffer = st.buffer
  /\ pendingLines = st.pendingLines
  /\ inCodeBlock = st.inCodeBlock
  /\ tableState = st.tableState

Src(kind, first, last) == [kind |-> kind, first |-> first, last |-> last]

\* The lines a table of the given TableState was built from end at line
\* upTo: its header, its separator and one line per row.
TableSrc(table, upTo) == Src("table", upTo - Len(table.rows) - 1, upTo)

Init ==
  /\ buffer = createInitialState.buffer
  /\ pendingLines = createInitialState.pendingLines
  /\ inCodeBlock = createInitialState.inCodeBlock
  /\ tableState = createInitialState.tableState
  /\ out = <<>>
  /\ pc = "idle"
  /\ fed = <<>>
  /\ flushed = FALSE
  /\ consumed = 0
  /\ outSrc = <<>>
  /\ atFlush = NotFlushed

\* renderer.write(chunk) is called: the chunk is split into lines and the
\* drain loop is entered.
Write(chunk) ==
  /\ pc = "idle"
  /\ SetState(writeSplit(state, chunk))
  /\ pc' = "write"
  /\ flushed' = FALSE
  /\ fed' = IF flushed THEN chunk ELSE fed \o chunk
  /\ out' = IF flushed THEN <<>> ELSE out
  /\ outSrc' = IF flushed THEN <<>> ELSE outSrc
  /\ consumed' = IF flushed THEN 0 ELSE consumed
  /\ atFlush' = NotFlushed

\* renderer.flush() is called: the buffer is moved to the queue and the
\* drain loop is entered in final mode.
Flush ==
  /\ pc = "idle"
  /\ SetState(flushPush(state))
  /\ pc' = "flush"
  /\ atFlush' = [st |-> state, outLen |-> Len(out)]
  /\ UNCHANGED <<out, fed, flushed, consumed, outSrc>>

\* What the strings of one iteration render, the iteration having begun with
\* consumed lines removed.
IterationSrc(st, r) ==
  CASE r.branch = "tableEnd"  -> <<TableSrc(st.tableState[1], consumed)>>
    [] r.branch = "codeClose" -> <<Src("codeOff", consumed + 1, consumed + 1)>>
    [] r.branch = "code"      -> <<Src("code", consumed + 1, consumed + 1)>>
    [] r.branch = "codeOpen"  -> <<Src("codeOn", consumed + 1, consumed + 1)>>
    [] r.branch = "line"      -> <<Src("line", consumed + 1, consumed + 1)>>
    [] OTHER                  -> <<>>

\* One iteration of the drain loop: the loop test holds.
\* r is what the iteration yields.
IterateTo(r) ==
  /\ SetState(r.st)
  /\ out' = out \o r.emit
  /\ outSrc' = outSrc \o IterationSrc(state, r)
  /\ consumed' = consumed + (Len(pendingLines) - Len(r.st.pendingLines))
  /\ pc' = IF ~r.brk THEN pc
           ELSE IF pc = "write" THEN "idle" ELSE "flushClose"

Iterate ==
  /\ pc \in {"write", "flush"}
  /\ pendingLines # <<>>
  /\ IterateTo(Iteration(state, pc = "flush"))
  /\ UNCHANGED <<fed, flushed, atFlush>>

\* The loop test fails: write returns, flush goes on to close what is open.
ExitLoop ==
  /\ pc \in {"write", "flush"}
  /\ pendingLines = <<>>
  /\ pc' = IF pc = "write" THEN "idle" ELSE "flushClose"
  /\ UNCHANGED <<buffer, pendingLines, inCodeBlock, tableState, out, fed,
                 flushed, consumed, outSrc, atFlush>>

\* The rest of flush: an open table is rendered, an open code block is
\* closed, and flush returns.
\* c is what the rest of flush yields.
FlushCloseTo(c) ==
  /\ SetState(c.st)
  /\ out' = out \o c.emit
  /\ outSrc' = outSrc
       \o (IF tableState # NoTable
           THEN <<TableSrc(tableState[1], consumed)>> ELSE <<>>)
       \o (IF inCodeBlock
           THEN <<Src("codeOff", consumed + 1, consumed)>> ELSE <<>>)

FlushClose ==
  /\ pc = "flushClose"
  /\ FlushCloseTo(flushClose(state))
  /\ pc' = "idle"
  /\ flushed' = TRUE
  /\ UNCHANGED <<fed, consumed, atFlush>>

Next ==
  \/ \E chunk \in ChunksAfter(IF flushed THEN <<>> ELSE fed, MaxChunk) :
       Write(chunk)
  \/ Flush
  \/ Iterate
  \/ ExitLoop
  \/ FlushClose

Spec == Init /\ [][Next]_vars

(***************************************************************************)
(* Vocabulary of the properties                                            *)
(***************************************************************************)
\* flush (or write) has returned.
Returned == pc = "idle"

AfterFlush == pc = "idle" /\ flushed

\* The lines of the stream that have entered pendingLines: the lines that a
\* line break ends and, once flush has been called, the unterminated tail.
InputLines ==
  LET parts == Split(fed, NL)
      complete == SubSeq(parts, 1, Len(parts) - 1)
      tail == parts[Len(parts)]
  IN  IF (flushed \/ pc \in {"flush", "flushClose"}) /\ tail # <<>>
      THEN Append(complete, tail) ELSE complete

\* The strings the sink got since flush was called.
SinceFlush == SubSeq(out, atFlush.outLen + 1, Len(out))

\* The queue the drain loop of the last flush began with.
FlushQueue == flushPush(atFlush.st).pendingLines

Count(seq, P(_)) == Cardinality({k \in 1..Len(seq) : P(seq[k])})

IsCodeOff(s) == s = ansi.codeOff \o <<NL>>

(***************************************************************************)
(* C1 Chunk-boundary independence                                          *)
(***************************************************************************)
\* w is what write(text) yields from the initial state.
thenFlush(w) == w.emit \o flush(w.st).emit

\* What the sink gets from write(text) followed by flush().
OneShot(text) == thenFlush(write(createInitialState, text))

\* C1: whenever flush has returned, whatever chunks the stream fed was cut
\* into, the sink holds exactly the strings that one write of the whole
\* stream followed by flush delivers.
C1_ChunkIndependence == AfterFlush => out = OneShot(fed)

\* A stream of more characters than one chunk holds (so it was written in
\* several chunks), rendered to a table and flushed.
C1_Witness ==
  /\ AfterFlush
  /\ Len(fed) > MaxChunk
  /\ \E k \in 1..Len(outSrc) : outSrc[k].kind = "table"

(***************************************************************************)
(* C2 Mutual exclusion of code block and table                             *)
(***************************************************************************)
\* C2: in every state, those inside the drain loop included, inCodeBlock and
\* a present tableState never hold together.
C2_MutualExclusion == ~(inCodeBlock /\ tableState # NoTable)

\* Inside the drain loop, a fence has just opened a code block right after
\* the table before it was closed and rendered.
C2_Witness ==
  /\ pc \in {"write", "flush"}
  /\ inCodeBlock
  /\ Len(outSrc) >= 2
  /\ outSrc[Len(outSrc)].kind = "codeOn"
  /\ outSrc[Len(outSrc) - 1].kind = "table"

(***************************************************************************)
(* C3 Flush finality                                                       *)
(***************************************************************************)
\* flush was called with nothing open and its drain loop began with the one
\* line l, a pipe line that is no fence.
FlushedLoneCandidate(l) ==
  /\ AfterFlush
  /\ ~atFlush.st.inCodeBlock
  /\ atFlush.st.tableState = NoTable
  /\ FlushQueue = <<l>>
  /\ isTableRow(l)
  /\ ~isFence(l)

\* C3: a flush that finds a single pipe line pending, with no line after it,
\* hands exactly that line to the sink, rendered as a generic line, and
\* leaves pendingLines empty.
C3_FlushFinality ==
  \A l \in {FlushQueue[i] : i \in 1..Len(FlushQueue)} :
    FlushedLoneCandidate(l) =>
      /\ SinceFlush = <<renderLine(l) \o <<NL>>>>
      /\ pendingLines = <<>>

\* The line a|b was pending alone when flush was called, and flush returned.
C3_Witness ==
  /\ FlushedLoneCandidate(<<"a", "|", "b">>)
  /\ atFlush.st.pendingLines = <<<<"a", "|", "b">>>>

(***************************************************************************)
(* C4 The state after flush                                                *)
(***************************************************************************)
\* C4: when flush has returned the renderer state is the initial state, and a
\* flush called in the initial state hands nothing to the sink.
C4_FreshAfterFlush ==
  AfterFlush =>
    /\ state = createInitialState
    /\ (atFlush.st = createInitialState => SinceFlush = <<>>)

\* flush has returned, having been called with text buffered and a code
\* block open.
C4_Witness ==
  /\ AfterFlush
  /\ atFlush.st.inCodeBlock
  /\ atFlush.st.buffer # <<>>

(***************************************************************************)
(* C5 The output contract                                                  *)
(***************************************************************************)
\* s ends with a line break and the character before it is none.
EndsWithOneBreak(s) ==
  /\ Len(s) >= 1
  /\ s[Len(s)] = NL
  /\ (Len(s) >= 2 => s[Len(s) - 1] # NL)

Breaks(s) == Cardinality({i \in 1..Len(s) : s[i] = NL})

\* C5: every string the sink got ends with exactly one line break; a string
\* that is no table holds one line, and a table holds one line for each of
\* the lines it was built from (header, separator, rows).
C5_OutputContract ==
  /\ Len(outSrc) = Len(out)
  /\ \A k \in 1..Len(out) :
       /\ EndsWithOneBreak(out[k])
       /\ Breaks(out[k]) =
            IF outSrc[k].kind = "table"
            THEN outSrc[k].last - outSrc[k].first + 1 ELSE 1

\* The sink holds a table with a data row: a string of three lines.
C5_Witness ==
  \E k \in 1..Len(out) :
    outSrc[k].kind = "table" /\ outSrc[k].last - outSrc[k].first >= 2

(***************************************************************************)
(* C6 Code block passthrough                                               *)
(***************************************************************************)
\* The drain loop is about to run an iteration.
InLoop == pc \in {"write", "flush"} /\ pendingLines # <<>>

\* C6: an iteration that finds a code block open and a line that is no fence
\* at the head of the queue hands the sink that line as it is, followed by a
\* line break, removes it from the queue, and leaves the code block open and
\* no table begun, whatever the line and the line after it are.
C6_CodePassthrough ==
  [][ (InLoop /\ inCodeBlock /\ ~isFence(pendingLines[1])) =>
        /\ out' = Append(out, pendingLines[1] \o <<NL>>)
        /\ pendingLines' = Tail(pendingLines)
        /\ inCodeBlock'
        /\ tableState' = NoTable ]_vars

\* Inside a code block a pipe line and the separator line after it were both
\* handed to the sink as they are, the first one holding inline markup.
C6_Witness ==
  \E k \in 1..(Len(out) - 1) :
    /\ outSrc[k].kind = "code"
    /\ outSrc[k + 1].kind = "code"
    /\ out[k] = <<"*", "a", "*", "|", NL>>
    /\ out[k + 1] = <<"-", "|", "-", NL>>
    /\ inCodeBlock

(***************************************************************************)
(* C7 flush with a block open                                              *)
(***************************************************************************)
\* The rows a table gains from the lines at the head of queue.
RECURSIVE RowsOf(_)
RowsOf(queue) ==
  IF queue # <<>> /\ isTableRow(queue[1]) /\ ~isTableSeparator(queue[1])
  THEN <<parseTableRow(queue[1])>> \o RowsOf(Tail(queue))
  ELSE <<>>

IsTableOut(k) == outSrc[k].kind = "table"

NewOut == (atFlush.outLen + 1)..Len(out)

\* C7: when flush returns, a table that was open when it was called has been
\* handed to the sink once, rendered from its header and the rows collected
\* up to its end; for a code block that was open exactly one style-reset
\* string and no fence line have been handed over; and no block is open.
C7_FlushClosesBlocks ==
  AfterFlush =>
    /\ inCodeBlock = FALSE
    /\ tableState = NoTable
    /\ (atFlush.st.tableState # NoTable =>
          /\ Cardinality({k \in NewOut : IsTableOut(k)}) = 1
          /\ \A k \in NewOut : IsTableOut(k) =>
               out[k] = renderTable(
                          [header |-> atFlush.st.tableState[1].header,
                           rows |-> atFlush.st.tableState[1].rows
                                      \o RowsOf(FlushQueue)]) \o <<NL>>)
    /\ (atFlush.st.inCodeBlock =>
          /\ Count(SinceFlush, IsCodeOff) = 1
          /\ Count(SinceFlush, isFence) = 0)

\* flush has returned; when it was called a table with a data row was open
\* and the buffer held one more row.
C7_Witness ==
  /\ AfterFlush
  /\ atFlush.st.tableState # NoTable
  /\ atFlush.st.buffer = <<"a", "|", "b">>
  /\ SinceFlush # <<>>

(***************************************************************************)
(* C8 Deferred table candidates                                            *)
(***************************************************************************)
\* The lines of the stream that are still to be removed from the queue.
Unconsumed == SubSeq(InputLines, consumed + 1, Len(InputLines))

\* Line i of the stream is rendered by string k of the sink.
Covers(k, i) == outSrc[k].first <= i /\ i <= outSrc[k].last

\* write has returned with a line left in the queue.
Deferred == pc = "idle" /\ ~flushed /\ pendingLines # <<>>

\* C8 (state): the queue holds exactly the lines of the stream not yet
\* removed from it, unchanged and in order; no string of the sink renders a
\* line that is still queued; and once flush has returned every line of the
\* stream has been removed and is accounted for by exactly one string of the
\* sink (its own rendering, the style string of a fence, or its table).
C8_State ==
  /\ pendingLines = Unconsumed
  /\ \A k \in 1..Len(outSrc) : outSrc[k].last <= consumed
  /\ (AfterFlush =>
        /\ consumed = Len(InputLines)
        /\ \A i \in 1..Len(InputLines) :
             Cardinality({k \in 1..Len(outSrc) : Covers(k, i)}) = 1)

\* C8 (step): in the loop of write a lone table candidate at the head of the
\* queue stops the loop and nothing changes; with a line after it, or in the
\* loop of flush, the iteration removes it from the queue.
C8_Step ==
  (InLoop /\ ~inCodeBlock /\ tableState = NoTable
     /\ isTableRow(pendingLines[1]) /\ ~isFence(pendingLines[1])) =>
    IF pc = "write" /\ Len(pendingLines) = 1
    THEN pc' = "idle" /\ UNCHANGED <<pendingLines, out, buffer, consumed>>
    ELSE /\ consumed' > consumed
         /\ tableState' # NoTable \/ Len(out') = Len(out) + 1

\* C8: a table candidate that write leaves at the head of the queue is never
\* discarded: nothing is written for it while it waits, it stays in the queue
\* unchanged, the next iteration that has a line after it (or runs in final
\* mode) resolves it, and it is accounted for by exactly one output.
C8_DeferredNeverDiscarded == [](C8_State) /\ [][C8_Step]_vars

\* write has returned leaving the candidate a|b alone in the queue, nothing
\* handed to the sink for it.
C8_Witness ==
  /\ Deferred
  /\ pendingLines = <<<<"a", "|", "b">>>>
  /\ consumed = 1
  /\ Len(out) = 1

(***************************************************************************)
(* C9 Arrival order                                                        *)
(***************************************************************************)
\* The string the lines first..last of the stream render to, by kind.
Rendering(src) ==
  LET l == InputLines
  IN  CASE src.kind = "line"    -> renderLine(l[src.first]) \o <<NL>>
        [] src.kind = "code"    -> l[src.first] \o <<NL>>
        [] src.kind = "codeOn"  -> ansi.codeOn \o <<NL>>
        [] src.kind = "codeOff" -> ansi.codeOff \o <<NL>>
        [] src.kind = "table"   ->
             renderTable(
               [header |-> parseTableRow(l[src.first]),
                rows |-> [r \in 1..(src.last - src.first - 1) |->
                            parseTableRow(l[src.first + 1 + r])]]) \o <<NL>>

\* Each string of the sink renders lines of the stream that come after the
\* lines every earlier string renders, and is their rendering.
C9_InOrder ==
  /\ \A k \in 1..Len(out) :
       /\ outSrc[k].first >= 1
       /\ outSrc[k].last <= Len(InputLines)
       /\ out[k] = Rendering(outSrc[k])
  /\ \A k \in 1..(Len(out) - 1) : outSrc[k].last < outSrc[k + 1].first

\* A step changes the queue only by adding lines at its end, when a call
\* begins, or by removing one or two lines from its head.
C9_HeadOnly ==
  \/ pendingLines' = pendingLines
  \/ pc = "idle" /\ IsPrefix(pendingLines, pendingLines')
  \/ \E n \in 1..2 :
       /\ n <= Len(pendingLines)
       /\ pendingLines' = SubSeq(pendingLines, n + 1, Len(pendingLines))

\* C9: pendingLines is processed strictly in arrival order: lines leave the
\* queue at its head only, and the output for an earlier line of the stream
\* reaches the sink before the output for a later one.
C9_ArrivalOrder == [](C9_InOrder) /\ [][C9_HeadOnly]_vars

\* A table candidate that had been deferred was rendered as a line before
\* the line after it, which a later write completed.
C9_Witness ==
  /\ Len(out) = 2
  /\ outSrc[1] = Src("line", 1, 1)
  /\ outSrc[2] = Src("line", 2, 2)
  /\ isTableRow(InputLines[1])
  /\ InputLines[2] # <<>>
  /\ ~flushed /\ pc = "idle"

(***************************************************************************)
(* C10 The buffer holds no line break                                      *)
(***************************************************************************)
\* C10: whenever write or flush has returned, buffer holds no line break.
C10_BufferNoNewline == Returned => ~Includes(buffer, NL)

\* write has returned after a chunk that ended two lines and began a third:
\* two lines went to the sink and the buffer holds the rest.
C10_Witness ==
  /\ Returned
  /\ ~flushed
  /\ Breaks(fed) = 2
  /\ Len(fed) <= MaxChunk
  /\ buffer # <<>>

(***************************************************************************)
(* The table renderer on its own: flush of a renderer that holds a table   *)
(***************************************************************************)
\* The most data rows of a table.
MaxRows == 2

\* The pipe lines a table is built from: one cell, a styled cell beside a
\* plain one, three cells the first of them wide, one empty cell, and a code
\* span beside a link.
TableLines ==
  { <<"a", "|">>,
    <<"*", "a", "*", "|", "b", "b">>,
    <<"a", "b", "c", "d", "|", "b", "|", "c">>,
    <<"|">>,
    <<Backtick, "a", "b", Backtick, "|", "[", "x", "]", "(", "y", ")">> }

SeparatorLine == <<"-", "|", "-">>

\* The sequences of at most n lines of TableLines.
RECURSIVE RowLineSeqs(_)
RowLineSeqs(n) ==
  IF n = 0 THEN {<<>>}
  ELSE RowLineSeqs(n - 1) \cup
       {Append(rs, l) : rs \in {t \in RowLineSeqs(n - 1) : Len(t) = n - 1},
                        l \in TableLines}

\* The text of a table: header line, separator line and row lines, each
\* ended by a line break.
TableText(h, rs) == Join(<<h, SeparatorLine>> \o rs, <<NL>>) \o <<NL>>

\* w is what write(text) yields from the initial state.
WrittenTo(text, w) ==
  /\ SetStateNow(w.st)
  /\ out = w.emit
  /\ fed = text
  /\ consumed = Len(Split(text, NL)) - 1 - Len(w.st.pendingLines)

\* The renderer after one write of the text of a table: the table is open.
TableInit ==
  /\ \E h \in TableLines, rs \in RowLineSeqs(MaxRows) :
       WrittenTo(TableText(h, rs), write(createInitialState, TableText(h, rs)))
  /\ pc = "idle"
  /\ flushed = FALSE
  /\ outSrc = <<>>
  /\ atFlush = NotFlushed

\* flush is called, once.
TableNext ==
  \/ ~flushed /\ Flush
  \/ ExitLoop
  \/ FlushClose

TableSpec == TableInit /\ [][TableNext]_vars

(***************************************************************************)
(* C11 The columns of a rendered table                                     *)
(***************************************************************************)
\* The table the lines first..last of the stream build.
TableOf(src) ==
  [header |-> parseTableRow(InputLines[src.first]),
   rows |-> [r \in 1..(src.last - src.first - 1) |->
               parseTableRow(InputLines[src.first + 1 + r])]]

\* The lines of a string of the sink, its closing line break taken off.
LinesOf(s) == Split(SubSeq(s, 1, Len(s) - 1), NL)

\* The cells of a rendered table line: what lies between its pipes.
CellsOf(line) == SubSeq(Split(line, "|"), 2, Len(Split(line, "|")) - 1)

\* C11: every line of a rendered table has as many cells as the header row
\* of the table has, whatever the header and the data rows are, a data row
\* holding fewer or more cells than the header.
C11_ColumnsEqualHeader ==
  \A k \in 1..Len(out) :
    outSrc[k].kind = "table" =>
      \A j \in 1..Len(LinesOf(out[k])) :
        Len(CellsOf(LinesOf(out[k])[j])) = Len(TableOf(outSrc[k]).header)

(***************************************************************************)
(* C12 Table column sizing                                                 *)
(***************************************************************************)
\* The text of a rendered cell: the cell less the blank on either side.
CellText(cell) == SubSeq(cell, 2, Len(cell) - 1)

\* The width a rendered cell takes on the terminal.
VisualWidth(cell) == Len(stripAnsi(CellText(cell)))

\* lines is the rendering of table: as many lines as header, separator and
\* rows; the same number of cells on every line; each cell set between two
\* blanks; in each column the same visual width on every line, at least 3
\* and at least the visual length of every cell the table has in the column;
\* and where a data row is shorter than the header, blanks of that width.
Sized(table, lines) ==
  /\ Len(lines) = Len(table.rows) + 2
  /\ \A j \in 1..Len(lines) :
       /\ Len(CellsOf(lines[j])) = Len(CellsOf(lines[1]))
       /\ \A i \in 1..Len(CellsOf(lines[j])) :
            /\ Len(CellsOf(lines[j])[i]) >= 2
            /\ Head(CellsOf(lines[j])[i]) = " "
            /\ CellsOf(lines[j])[i][Len(CellsOf(lines[j])[i])] = " "
            /\ VisualWidth(CellsOf(lines[j])[i])
                 = VisualWidth(CellsOf(lines[1])[i])
  /\ \A i \in 1..Len(CellsOf(lines[1])) :
       /\ VisualWidth(CellsOf(lines[1])[i]) >= 3
       /\ i <= Len(table.header) =>
            VisualWidth(CellsOf(lines[1])[i]) >= visualLength(table.header[i])
       /\ \A r \in 1..Len(table.rows) :
            i <= Len(table.rows[r]) =>
              VisualWidth(CellsOf(lines[1])[i]) >= visualLength(table.rows[r][i])
  /\ \A r \in 1..Len(table.rows) :
       \A i \in (Len(table.rows[r]) + 1)..Len(table.header) :
         CellText(CellsOf(lines[r + 2])[i])
           = Repeat(" ", VisualWidth(CellsOf(lines[1])[i]))

\* C12: in every rendered table the header line, the separator line and the
\* row lines hold the same number of cells, column i is as wide on every
\* line, at least 3 and at least as wide as every cell of column i, and a
\* row shorter than the header is filled up with blank cells of that width.
C12_ColumnSizing ==
  \A k \in 1..Len(out) :
    outSrc[k].kind = "table" => Sized(TableOf(outSrc[k]), LinesOf(out[k]))

\* flush has rendered a table whose header has three cells, the first four
\* characters wide, and whose rows are a one-cell row and a row with a
\* styled cell.
C12_Witness ==
  /\ AfterFlush
  /\ Len(out) = 1
  /\ outSrc[1].kind = "table"
  /\ TableOf(outSrc[1]).header = <<<<"a", "b", "c", "d">>, <<"b">>, <<"c">>>>
  /\ TableOf(outSrc[1]).rows
       = << <<<<"a">>>>, <<<<"*", "a", "*">>, <<"b", "b">>>> >>

(***************************************************************************)
(* C13 Fence lines                                                         *)
(***************************************************************************)
\* The iteration about to run finds a fence line at the head of the queue.
FenceAtHead == InLoop /\ isFence(pendingLines[1])

\* The step removes the head of the queue.
HeadConsumed == consumed' > consumed

\* C13 as stated: every iteration that removes a fence line from the queue
\* toggles inCodeBlock, whatever mode the router is in, a table being open
\* included.
C13_EveryFenceToggles ==
  [][ (FenceAtHead /\ HeadConsumed) => inCodeBlock' = ~inCodeBlock ]_vars

\* The open table gains the head of the queue as its last row, and nothing
\* else changes but the queue.
HeadBecomesRow ==
  /\ tableState' # NoTable
  /\ tableState'[1].header = tableState[1].header
  /\ tableState'[1].rows
       = Append(tableState[1].rows, parseTableRow(pendingLines[1]))
  /\ pendingLines' = Tail(pendingLines)
  /\ out' = out

\* C13 amended: a fence line at the head of the queue toggles inCodeBlock and
\* is removed when no table is open; while a table is open, a fence line
\* with a pipe becomes a data row of the table and inCodeBlock stays false,
\* and a fence line without a pipe ends the table and stays at the head of
\* the queue, where the next iteration finds it with no table open.
C13_FenceToggles ==
  [][ FenceAtHead =>
        IF tableState = NoTable
        THEN /\ inCodeBlock' = ~inCodeBlock
             /\ pendingLines' = Tail(pendingLines)
             /\ tableState' = NoTable
        ELSE IF isTableRow(pendingLines[1])
        THEN HeadBecomesRow /\ ~inCodeBlock /\ ~inCodeBlock'
        ELSE /\ tableState' = NoTable
             /\ pendingLines' = pendingLines
             /\ ~inCodeBlock'
             /\ pc' = pc ]_vars

\* A fence line that holds a pipe came while a table was open and is now
\* the last row of the table, no code block open.
C13_Witness ==
  /\ tableState # NoTable
  /\ tableState[1].rows # <<>>
  /\ tableState[1].rows[Len(tableState[1].rows)]
       = <<<<Backtick, Backtick, Backtick>>>>
  /\ isFence(InputLines[consumed])
  /\ ~inCodeBlock

(***************************************************************************)
(* C14 The end of a table                                                  *)
(***************************************************************************)
\* The iteration about to run finds a table open.
TableAtHead == InLoop /\ tableState # NoTable

\* line ends a table: it has no pipe or it is a separator line.
EndsTable(line) == ~isTableRow(line) \/ isTableSeparator(line)

\* With a table open, a head line that ends the table makes the iteration
\* hand the rendered table to the sink, once, and clear tableState, the queue
\* untouched and the loop going on with no block open; any other head line
\* becomes a row of the table and nothing is handed to the sink.
C14_Step ==
  TableAtHead =>
    IF EndsTable(pendingLines[1])
    THEN /\ out' = Append(out, renderTable(tableState[1]) \o <<NL>>)
         /\ tableState' = NoTable
         /\ pendingLines' = pendingLines
         /\ consumed' = consumed
         /\ ~inCodeBlock'
         /\ pc' = pc
    ELSE HeadBecomesRow /\ consumed' = consumed + 1

\* The string that follows a table in the sink renders the line right after
\* the lines of the table, as NORMAL mode renders it: a generic line, the
\* opening of a code block, or a table that line is the header of.
C14_Order ==
  \A k \in 1..(Len(out) - 1) :
    outSrc[k].kind = "table" =>
      /\ outSrc[k + 1].first = outSrc[k].last + 1
      /\ outSrc[k + 1].kind \in {"line", "codeOn", "table"}

\* C14: in TABLE mode a head line without a pipe, or a separator line, ends
\* the table: the table is rendered to the sink exactly once, tableState is
\* cleared and the line is not consumed but processed next in NORMAL mode,
\* its output after that of the table; a pipe line that is no separator is
\* appended as a parsed row and consumed without any emission.
C14_TableEnd == [](C14_Order) /\ [][C14_Step]_vars

\* A heading ended a table: the sink holds the table of lines 1 and 2 and
\* then the rendering of line 3.
C14_Witness ==
  /\ Len(out) = 2
  /\ outSrc[1] = Src("table", 1, 2)
  /\ outSrc[2] = Src("line", 3, 3)
  /\ ~isTableRow(InputLines[3])

(***************************************************************************)
(* C15 The start of a table                                                *)
(***************************************************************************)
\* The iteration about to run is in NORMAL mode and finds a pipe line that
\* is no fence at the head of the queue, and a line after it.
CandidateAtHead ==
  /\ InLoop
  /\ tableState = NoTable
  /\ ~inCodeBlock
  /\ isTableRow(pendingLines[1])
  /\ ~isFence(pendingLines[1])
  /\ Len(pendingLines) >= 2

\* C15: in NORMAL mode, a pipe line followed by a valid separator line
\* starts a table whose header is the parsed pipe line and whose rows are
\* empty, exactly those two lines are removed and nothing is emitted;
\* followed by a line that is no valid separator, the pipe line alone is
\* removed and rendered as a generic line and the line after it becomes the
\* head of the queue.
C15_TableStart ==
  [][ CandidateAtHead =>
        IF isTableSeparator(pendingLines[2])
        THEN /\ tableState' = <<[header |-> parseTableRow(pendingLines[1]),
                                  rows |-> <<>>]>>
             /\ pendingLines' = Tail(Tail(pendingLines))
             /\ consumed' = consumed + 2
             /\ out' = out
             /\ ~inCodeBlock'
        ELSE /\ tableState' = NoTable
             /\ pendingLines' = Tail(pendingLines)
             /\ pendingLines'[1] = pendingLines[2]
             /\ consumed' = consumed + 1
             /\ out' = Append(out, renderLine(pendingLines[1]) \o <<NL>>)
             /\ ~inCodeBlock' ]_vars

\* The styled pipe line and the separator line after it have just started a
\* table: both are removed and nothing is in the sink.
C15_Witness ==
  /\ tableState = <<[header |-> <<<<"*", "a", "*">>>>, rows |-> <<>>]>>
  /\ consumed = 2
  /\ out = <<>>
  /\ isTableSeparator(InputLines[2])

(***************************************************************************)
(* C16 No nesting of code blocks                                           *)
(***************************************************************************)
\* No line of a code block that the sink got as it is was a fence line.
C16_NoFenceEmitted ==
  \A k \in 1..Len(out) :
    outSrc[k].kind = "code" => ~isFence(InputLines[outSrc[k].first])

\* With a code block open, a fence line at the head of the queue, whatever
\* follows its backticks, closes the block: inCodeBlock becomes false, the
\* sink gets one style-reset string, and the fence line is removed.
C16_Step ==
  (InLoop /\ inCodeBlock /\ isFence(pendingLines[1])) =>
    /\ ~inCodeBlock'
    /\ out' = Append(out, ansi.codeOff \o <<NL>>)
    /\ pendingLines' = Tail(pendingLines)
    /\ tableState' = NoTable

\* C16: while inCodeBlock is true every fence line sets it to false and
\* emits one style-reset string; it never opens a second block and the
\* fence line itself is never emitted.
C16_NoNesting == [](C16_NoFenceEmitted) /\ [][C16_Step]_vars

\* A code block was opened by a bare fence and closed by a fence with text
\* after its backticks: the sink holds a style start and a style reset.
C16_Witness ==
  /\ Len(out) = 2
  /\ outSrc[1] = Src("codeOn", 1, 1)
  /\ outSrc[2] = Src("codeOff", 2, 2)
  /\ InputLines[2] = <<Backtick, Backtick, Backtick, "|">>
  /\ ~inCodeBlock

(***************************************************************************)
(* C17 Bounded buffering after write                                       *)
(***************************************************************************)
\* C17: whenever write has returned, pendingLines is empty or holds exactly
\* one line, a pipe line that is no fence, with no code block and no table
\* open: a table candidate waiting for the line after it.
C17_BoundedBuffering ==
  Returned =>
    \/ pendingLines = <<>>
    \/ /\ Len(pendingLines) = 1
       /\ isTableRow(pendingLines[1])
       /\ ~isFence(pendingLines[1])
       /\ ~inCodeBlock
       /\ tableState = NoTable

\* write returned with the separator line that ended a table left in the
\* queue as the next table candidate, the table in the sink.
C17_Witness ==
  /\ Deferred
  /\ pendingLines = <<<<"-", "|", "-">>>>
  /\ Len(out) = 1
  /\ outSrc[1].kind = "table"

(***************************************************************************)
(* C18 Termination of the drain loop                                       *)
(***************************************************************************)
\* A call runs to completion: the code is synchronous, so a loop iteration,
\* the loop exit and the end of flush are taken whenever they can be.  This
\* is weak fairness of Iterate, ExitLoop and FlushClose, each written as
\* "again and again the action is disabled or taken", with the condition
\* under which the action is enabled spelled out.
LoopDone == pc \in {"write", "flush"} /\ pendingLines = <<>>

LiveSpec ==
  /\ Spec
  /\ ([]<>(~InLoop) \/ []<><<Iterate>>_vars)
  /\ ([]<>(~LoopDone) \/ []<><<ExitLoop>>_vars)
  /\ ([]<>(pc # "flushClose") \/ []<><<FlushClose>>_vars)

\* An iteration removes a line from the queue, or clears tableState and
\* leaves the queue as it is, or stops the loop of write.
C18_Step ==
  InLoop =>
    \/ Len(pendingLines') < Len(pendingLines) /\ pc' = pc
    \/ /\ tableState # NoTable
       /\ tableState' = NoTable
       /\ pendingLines' = pendingLines
       /\ pc' = pc
    \/ pc = "write" /\ pc' = "idle" /\ pendingLines' = pendingLines

\* The loop of flush is left only with the queue empty.
C18_Final ==
  (pc = "flush" /\ pc' # "flush") => (pendingLines = <<>> /\ pc' = "flushClose")

\* C18: every write and every flush returns: each iteration of the drain
\* loop removes a line, or clears tableState, or stops the loop; the loop of
\* flush ends only with pendingLines empty; and a call that has begun
\* returns.
C18_Terminates ==
  /\ [][C18_Step]_vars
  /\ [][C18_Final]_vars
  /\ (pc # "idle") ~> (pc = "idle")

\* flush has returned after its loop drained a deferred candidate and the
\* unterminated line after it.
C18_Witness ==
  /\ AfterFlush
  /\ Len(FlushQueue) = 2
  /\ atFlush.st.buffer # <<>>
  /\ pendingLines = <<>>

(***************************************************************************)
(* C19 Balance of style start and style reset                              *)
(***************************************************************************)
IsCodeOn(s) == s = ansi.codeOn \o <<NL>>

\* Among the first n strings of the sink, the style starts less the style
\* resets.
OpenAfter(n) ==
  Cardinality({k \in 1..n : IsCodeOn(out[k])})
    - Cardinality({k \in 1..n : IsCodeOff(out[k])})

\* C19: in every state the style-start strings emitted less the style-reset
\* strings emitted are 1 when inCodeBlock is true and 0 when it is false; no
\* style reset comes without an unmatched style start before it; and after
\* flush the two counts are equal.
C19_StyleBalance ==
  /\ OpenAfter(Len(out)) = IF inCodeBlock THEN 1 ELSE 0
  /\ \A n \in 0..Len(out) : OpenAfter(n) \in {0, 1}
  /\ (AfterFlush => OpenAfter(Len(out)) = 0)

\* flush has returned, having closed the second code block of the stream:
\* the sink holds two style starts and two style resets.
C19_Witness ==
  /\ AfterFlush
  /\ atFlush.st.inCodeBlock
  /\ Count(out, IsCodeOn) = 2
  /\ Count(out, IsCodeOff) = 2

(***************************************************************************)
(* C20 Line conservation                                                   *)
(***************************************************************************)
\* String k of the sink is the rendering of the lines it stands for, and
\* they are lines of its kind.
Accounted(k) ==
  LET src == outSrc[k]
      l == InputLines
  IN  CASE src.kind = "codeOn" ->
             /\ src.first = src.last
             /\ isFence(l[src.first])
             /\ out[k] = ansi.codeOn \o <<NL>>
        [] src.kind = "codeOff" ->
             /\ \/ src.first = src.last /\ isFence(l[src.first])
                \/ src.first = src.last + 1 /\ k = Len(out)
             /\ out[k] = ansi.codeOff \o <<NL>>
        [] src.kind = "code" ->
             /\ src.first = src.last
             /\ out[k] = l[src.first] \o <<NL>>
        [] src.kind = "line" ->
             /\ src.first = src.last
             /\ out[k] = renderLine(l[src.first]) \o <<NL>>
        [] src.kind = "table" ->
             /\ src.last >= src.first + 1
             /\ isTableRow(l[src.first])
             /\ isTableSeparator(l[src.first + 1])
             /\ \A i \in (src.first + 2)..src.last : isTableRow(l[i])
             /\ out[k] = renderTable(TableOf(src)) \o <<NL>>

\* When flush has returned every line of the stream has been removed from
\* the queue and is accounted for by exactly one string of the sink, and
\* every string of the sink accounts for lines of the stream.
C20_State ==
  AfterFlush =>
    /\ consumed = Len(InputLines)
    /\ Len(outSrc) = Len(out)
    /\ \A i \in 1..Len(InputLines) :
         Cardinality({k \in 1..Len(out) : Covers(k, i)}) = 1
    /\ \A k \in 1..Len(out) : Accounted(k)

\* A table that is opened has no rows and nothing is emitted for it; while
\* it is open its header stays, it gains a row exactly when a line is
\* removed from the queue, and nothing is emitted; when it is closed it is
\* emitted, once, with the rows it has.
C20_Step ==
  /\ (tableState = NoTable /\ tableState' # NoTable) =>
       tableState'[1].rows = <<>> /\ out' = out
  /\ (tableState # NoTable /\ tableState' # NoTable) =>
       /\ tableState'[1].header = tableState[1].header
       /\ tableState'[1].rows =
            IF consumed' > consumed
            THEN Append(tableState[1].rows, parseTableRow(pendingLines[1]))
            ELSE tableState[1].rows
       /\ out' = out
  /\ (tableState # NoTable /\ tableState' = NoTable) =>
       out' = Append(out, renderTable(tableState[1]) \o <<NL>>)

\* C20: for every sequence of writes followed by flush, every input line is
\* accounted for exactly once, as a fence, a code line, a generic line, or
\* the header, the separator or a data row of one emitted table; and every
\* table that was opened is emitted exactly once, with exactly the rows
\* appended to it, in order.
C20_LineConservation == [](C20_State) /\ [][C20_Step]_vars

\* flush has returned for a stream of a code block holding a pipe line: the
\* sink holds the style start, the line as it is and the style reset that
\* flush emits for no line.
C20_Witness ==
  /\ AfterFlush
  /\ Len(InputLines) = 2
  /\ Len(out) = 3
  /\ outSrc[2] = Src("code", 2, 2)
  /\ outSrc[3] = Src("codeOff", 3, 2)
  /\ isTableRow(InputLines[2])

=============================================================================
